---- MODULE Spec2Model ----
(***************************************************************************)
(* Model of the two scripts of the repository:                             *)
(*   download_templates.py      download_one and the thread pool of main   *)
(*   collect_all_list_items.py  the page traversal loop of main            *)
(* Strings that the code takes apart (titles, file names, extensions,      *)
(* resource ids) are sequences of one-character strings, so that           *)
(* safe_filename and os.path.splitext are computed as the library does.    *)
(***************************************************************************)
EXTENDS Integers, Sequences, FiniteSets, TLC

\* ------------------------------------------------------------------ bounds
\* rows of the input CSV in a batch run
NRows == 2
\* largest --workers value tried
MaxWorkers == 2
\* chunks of 8192 bytes in one payload
NChunks == 2
\* exceptions (network, file system) raised while one record is downloaded alone
MaxFaults == 1
\* exceptions (network, file system) raised in one batch run
MaxBatchFaults == 1
\* largest --max-pages value tried
MaxPagesArg == 6
\* largest page number shown by the pagination widget
MaxLabel == 6
\* links to detail pages on one listing page
MaxItems == 2

\* ------------------------------------------------------- program constants
\* download_one(..., retries=2)
Retries == 2
\* safe_filename keeps the first 180 characters
MaxNameLen == 180

\* ------------------------------------------------------------ small helpers
Min(a, b) == IF a < b THEN a ELSE b

SetMax(S) == CHOOSE x \in S : \A y \in S : y <= x

\* the value Python writes None
None == <<"None">>

\* ---------------------------------------------------------------- strings
Alnum == {"a", "b", "x", "p", "d", "f", "o", "c", "i", "n", "r", "t", "e", "m", "1", "2"}

\* c.isalnum() or c in " ._-()"
KeptChars == Alnum \cup {" ", ".", "_", "-", "(", ")"}

safe_filename(s) ==
    SubSeq([i \in 1..Len(s) |-> IF s[i] \in KeptChars THEN s[i] ELSE "_"],
           1, Min(Len(s), MaxNameLen))

\* p.rfind(c): the last index of c in p, 0 when absent
RFind(p, c) ==
    IF \E i \in 1..Len(p) : p[i] = c
    THEN SetMax({i \in 1..Len(p) : p[i] = c})
    ELSE 0

\* os.path.splitext (genericpath._splitext): the extension starts at the last
\* dot after the last separator, unless only dots precede it in the name
splitext(p) ==
    LET sepIndex == RFind(p, "/")
        dotIndex == RFind(p, ".")
    IN  IF dotIndex > sepIndex
           /\ \E i \in (sepIndex + 1)..(dotIndex - 1) : p[i] # "."
        THEN <<SubSeq(p, 1, dotIndex - 1), SubSeq(p, dotIndex, Len(p))>>
        ELSE <<p, <<>>>>

\* s.strip(' "')
RECURSIVE LStrip(_)
LStrip(s) ==
    IF s # <<>> /\ s[1] \in {" ", "\""} THEN LStrip(Tail(s)) ELSE s

RECURSIVE RStrip(_)
RStrip(s) ==
    IF s # <<>> /\ s[Len(s)] \in {" ", "\""}
    THEN RStrip(SubSeq(s, 1, Len(s) - 1))
    ELSE s

Strip(s) == RStrip(LStrip(s))

ExtPdf == <<".", "p", "d", "f">>
ExtDocx == <<".", "d", "o", "c", "x">>
ExtDoc == <<".", "d", "o", "c">>
ExtBin == <<".", "b", "i", "n">>
PartSuffix == <<".", "p", "a", "r", "t">>

\* ------------------------------------------------------------ input records
\* a detail URL: empty (the CSV cell is empty or absent), else its query
\* parameters in order, and whether urlparse raises on it
Url(params, malformed) == [empty |-> FALSE, params |-> params, malformed |-> malformed]

NoUrl == [empty |-> TRUE, params |-> <<>>, malformed |-> FALSE]

Param(k, v) == [k |-> k, v |-> v]

\* urllib.parse.parse_qs(urlparse(url).query).get("id", [None])[0]; blank
\* values are dropped by parse_qs; a ValueError of urlparse leaves uid None
QueryId(url) ==
    LET ids == {i \in 1..Len(url.params) :
                    url.params[i].k = <<"i", "d">> /\ url.params[i].v # <<>>}
    IN  IF url.malformed \/ ids = {}
        THEN None
        ELSE url.params[CHOOSE i \in ids : \A j \in ids : i <= j].v

\* "id=" in detail_url: a parameter whose key ends with id
HasIdEq(url) ==
    \E i \in 1..Len(url.params) :
        LET k == url.params[i].k
        IN  Len(k) >= 2 /\ SubSeq(k, Len(k) - 1, Len(k)) = <<"i", "d">>

\* detail_url.split("id=")[-1].split("&")[0]
SubstrId(url) ==
    LET hits == {i \in 1..Len(url.params) :
                    LET k == url.params[i].k
                    IN  Len(k) >= 2 /\ SubSeq(k, Len(k) - 1, Len(k)) = <<"i", "d">>}
    IN  url.params[SetMax(hits)].v

\* lines 58-68 of download_one; <<>> and None both fail "if not uid"
ExtractUid(url) ==
    LET q == QueryId(url)
    IN  IF q # None /\ q # <<>>
        THEN q
        ELSE IF HasIdEq(url) THEN SubstrId(url) ELSE None

Entry(title, section, url) == [title |-> title, section |-> section, detail_url |-> url]

U1 == <<"1">>
U2 == <<"2">>

\* the rows a CSV may hold; an empty title or section is an empty cell
Entries ==
    { Entry(<<"a", "/">>, "national", Url(<<Param(<<"i", "d">>, U1)>>, FALSE)),
      Entry(<<"a", ":">>, "national", Url(<<Param(<<"i", "d">>, U2)>>, FALSE)),
      Entry(<<".">>, "", Url(<<Param(<<"i", "d">>, U1)>>, TRUE)),
      Entry(<<".">>, "", Url(<<Param(<<"x">>, U1), Param(<<"p", "i", "d">>, U2)>>, FALSE)),
      Entry(<<"a", "/">>, "national", NoUrl),
      Entry(<<>>, "national", Url(<<Param(<<"i", "d">>, <<>>)>>, FALSE)),
      Entry(<<"a", ":">>, "national", Url(<<Param(<<"x">>, U1)>>, FALSE)) }

\* the CSVs of a batch run: rows with different ids whose titles give the same
\* file name, a row that is there twice, and a row without a url or an id
\* after a row that has both
RECURSIVE RowsOf(_)
RowsOf(n) ==
    IF n = 0 THEN {<<>>}
    ELSE {Append(q, e) : q \in RowsOf(n - 1), e \in Entries}

HasUid(e) == ~e.detail_url.empty /\ ExtractUid(e.detail_url) \notin {None, <<>>}

BatchRows ==
    {q \in RowsOf(NRows) :
        /\ HasUid(q[1])
        /\ \A i \in 1..(Len(q) - 1) :
            \/ /\ HasUid(q[i + 1])
               /\ safe_filename(q[i].title) = safe_filename(q[i + 1].title)
               /\ q[i].section = q[i + 1].section
               /\ ExtractUid(q[i].detail_url) # ExtractUid(q[i + 1].detail_url)
            \/ q[i] = q[i + 1] /\ q[i].title # <<".">>
            \/ ~HasUid(q[i + 1]) /\ q[i].title = q[i + 1].title}

\* entry.get("title") or entry.get("name") or "item"
TitleOf(e) == IF e.title = <<>> THEN <<"i", "t", "e", "m">> ELSE e.title

\* entry.get("section") or "unknown"
SectionOf(e) == IF e.section = "" THEN "unknown" ELSE e.section

\* --types, split on commas and lower-cased
TypeLists == {<<"pdf">>, <<"pdf", "word">>}

\* typ_num = 2 if t.lower()=="pdf" else 1
TypNum(t) == IF t = "pdf" THEN 2 ELSE 1

\* --------------------------------------------------------------- responses
CtPdf == "application/pdf"
CtDocx == "application/vnd.openxmlformats-officedocument.wordprocessingml.document"
CtMsword == "application/msword"
CtHtml == "text/html; charset=utf-8"
CtOctet == "application/octet-stream"

\* r.headers.get("Content-Type","").lower(); "" when the header is absent
CTypes == {"", CtPdf, CtDocx, CtMsword, CtHtml, CtOctet}

\* needle in ctype, for the needles download_one looks for
Contains(ctype, needle) ==
    CASE needle = "pdf" -> ctype = CtPdf
      [] needle = "officedocument.wordprocessingml.document" -> ctype = CtDocx
      [] needle = "word" -> ctype \in {CtDocx, CtMsword}
      [] needle = "msword" -> ctype = CtMsword
      [] OTHER -> FALSE

\* a Content-Disposition header: present or not, whether it holds "filename=",
\* and the text after the last "filename="
Disposition(present, hasFilename, rest) ==
    [present |-> present, hasFilename |-> hasFilename, rest |-> rest]

Dispositions ==
    { Disposition(FALSE, FALSE, <<>>),
      Disposition(TRUE, FALSE, <<>>),
      Disposition(TRUE, TRUE, <<"\"", "x", ".", "p", "d", "f", "\"">>),
      Disposition(TRUE, TRUE, <<"x">>) }

Statuses == {200, 403, 500}

NoDisposition == Disposition(FALSE, FALSE, <<>>)

\* session.get raised: there is no response
Raised ==
    [raised |-> TRUE, status |-> 0, ctype |-> "", cd |-> NoDisposition,
     magic |-> FALSE, seekable |-> FALSE]

\* every status-200 response: headers, whether the body starts with %PDF, and
\* whether the raw stream supports seek (urllib3's stream over a socket does not)
AllOkResponses ==
    {[raised |-> FALSE, status |-> 200, ctype |-> ct, cd |-> cd,
      magic |-> mg, seekable |-> sk] :
        ct \in CTypes, cd \in Dispositions, mg \in BOOLEAN, sk \in BOOLEAN}

\* what session.get gives while a record is downloaded: an exception, an error
\* status, or one of the status-200 responses the server is seen to send
Responses ==
    {Raised}
    \cup
    {[raised |-> FALSE, status |-> st, ctype |-> CtHtml, cd |-> NoDisposition,
      magic |-> FALSE, seekable |-> FALSE] : st \in Statuses \ {200}}
    \cup
    {r \in AllOkResponses :
        \/ r.ctype \in {"", CtPdf, CtDocx, CtHtml} /\ r.cd = NoDisposition
        \/ /\ r.ctype = CtOctet /\ r.cd = Disposition(TRUE, TRUE, <<"\"", "x", ".", "p", "d", "f", "\"">>)
           /\ ~r.magic /\ ~r.seekable}

\* the responses of a batch run: an error status, an HTML page, a PDF sent
\* with its content type, and a PDF sent without headers
BatchResponses ==
    {r \in Responses :
        \/ r.status = 403
        \/ r.status = 200 /\ r.ctype = CtHtml /\ ~r.magic /\ r.seekable
        \/ r.status = 200 /\ r.ctype = CtPdf /\ r.magic /\ ~r.seekable
        \/ r.status = 200 /\ r.ctype = "" /\ r.magic /\ ~r.seekable}

\* last_err values
Err(kind, code) == [kind |-> kind, code |-> code]

NoErr == Err("None", 0)

\* lines 100-120: the extension chosen for a status-200 response; ext <<>> is
\* Python's None, raised is the exception of r.raw.seek(0) on a stream that
\* cannot seek (io.UnsupportedOperation, whose message is "seek")
Classify(r) ==
    IF Contains(r.ctype, "pdf")
    THEN [raised |-> FALSE, ext |-> ExtPdf]
    ELSE IF Contains(r.ctype, "officedocument.wordprocessingml.document")
            \/ Contains(r.ctype, "word") \/ Contains(r.ctype, "msword")
    THEN [raised |-> FALSE,
          ext |-> IF Contains(r.ctype, "officedocument.wordprocessingml.document")
                  THEN ExtDocx ELSE ExtDoc]
    ELSE IF r.cd.hasFilename
    THEN LET e == splitext(Strip(r.cd.rest))[2]
         IN  [raised |-> FALSE, ext |-> IF e = <<>> THEN ExtBin ELSE e]
    ELSE IF ~r.seekable
    THEN [raised |-> TRUE, ext |-> <<>>]
    ELSE [raised |-> FALSE, ext |-> IF r.magic THEN ExtPdf ELSE <<>>]

\* ------------------------------------------------------------- file system
Path(dir, name) == [dir |-> dir, name |-> name]

NoPath == Path("", <<>>)

\* outpath + ".part"
Part(p) == Path(p.dir, p.name \o PartSuffix)

\* one chunk of the payload that task t downloads for its ti-th type
Chunk(t, ti, k) == [o |-> t, ty |-> ti, k |-> k]

Hole == Chunk(0, 0, 0)

Payload(t, ti) == [k \in 1..NChunks |-> Chunk(t, ti, k)]

\* fh.write(chunk) at offset off of a file whose content is c
WriteAt(c, off, x) ==
    IF off < Len(c)
    THEN [c EXCEPT ![off + 1] = x]
    ELSE c \o [i \in 1..(off - Len(c)) |-> Hole] \o <<x>>

\* lines 137-146: the output path for a title, section, extension and id,
\* given the paths that exist
OutPath(exists, title, section, ext, uid) ==
    LET filename == safe_filename(title) \o ext
        outpath == Path(section, filename)
        sp == splitext(filename)
    IN  IF outpath \in exists
        THEN Path(section, sp[1] \o <<"_">> \o uid \o sp[2])
        ELSE outpath

\* ------------------------------------------------------------------- state
VARIABLES
    rows,        \* main: the rows read from the input CSV
    types,       \* main: the list of types from --types
    workers,     \* main: --workers
    server,      \* the responses the download endpoint gives in this run
    pc,          \* per task: queued, attempt, open, write, replace, done
    ti,          \* per task: index in types of the type being downloaded
    attempt,     \* per task: the loop variable of "for attempt in range(retries+1)"
    last_err,    \* per task: last_err
    outpath,     \* per task: outpath of the accepted response
    off,         \* per task: chunks written through the open .part handle
    fh,          \* per task: the path at which the file of the open handle lives
    saved,       \* per task: the list saved
    ret,         \* per task: the value download_one returned
    reqs,        \* per task: session.get calls issued, per type index
    files,       \* disk: path -> content, payloads and .part files
    dirs,        \* disk: directories made by os.makedirs
    debugFiles,  \* disk: files under debug_html
    results,     \* main: the list results
    manifest,    \* main: download_results.csv
    faults,      \* exceptions the network and the file system may still raise
    lastResp,    \* the attempt just made: its task, what session.get gave, and
                 \* whether an exception was raised while it was handled
    onlyStatus   \* per task: every attempt so far for the current type got a
                 \* response whose status is not 200

dvars == <<rows, types, workers, server, pc, ti, attempt, last_err, outpath, off, fh, saved,
           ret, reqs, files, dirs, debugFiles, results, manifest, faults, lastResp, onlyStatus>>

\* the state of collect_all_list_items.py
VARIABLES
    c_pc,           \* start, loop, write, done, crashed
    max_pages,      \* args.max_pages
    all_items,      \* all_items: detail_url -> title
    total_pages,    \* total_pages, -1 for None
    max_try,        \* max_try
    current,        \* current
    consec_no_new,  \* consec_no_new (made on the first pass of the loop, as 0)
    hist,           \* the pages asked for so far: page, how, and new_count
    stop,           \* why the loop ended: "", ceiling, no_growth, abort
    out_csv,        \* outputs_all_<section>_by_clicks.csv
    driver_quit,    \* driver.quit() was called
    pending         \* the part of items0 that "for t,u in items0" has not reached

cvars == <<c_pc, max_pages, all_items, total_pages, max_try, current, consec_no_new,
           hist, stop, out_csv, driver_quit, pending>>

\* the functions of the two programs applied to inputs of their own
VARIABLES
    m_pc,     \* in, once, twice
    m_acc,    \* an accumulator all_items
    m_items,  \* the pairs extracted from one page
    m_once,   \* the accumulator and new_count after lines 200-204
    m_twice,  \* the same after lines 200-204 have run again on the same pairs
    k_pc,     \* in, out
    k_r,      \* a status-200 response
    k_out     \* what lines 100-120 make of it

fvars == <<m_pc, m_acc, m_items, m_once, m_twice, k_pc, k_r, k_out>>

vars == <<dvars, cvars, fvars>>

Tasks == 1..Len(rows)

Uid(t) == ExtractUid(rows[t].detail_url)

NoRet == [ok |-> FALSE, code |-> "none", type |-> "", err |-> NoErr, paths |-> <<>>]

\* return False, "no_detail_url"  /  return False, "no_id"
RetCode(code) == [ok |-> FALSE, code |-> code, type |-> "", err |-> NoErr, paths |-> <<>>]

\* return False, f"fail_{t}:{last_err}"
RetFail(t, err) == [ok |-> FALSE, code |-> "fail", type |-> t, err |-> err, paths |-> <<>>]

\* return True, saved
RetSaved(paths) == [ok |-> TRUE, code |-> "saved", type |-> "", err |-> NoErr, paths |-> paths]

NoLast == [task |-> 0, r |-> Raised, fault |-> FALSE]

Last(t, r, fault) == [task |-> t, r |-> r, fault |-> fault]

InitTasks(n) ==
    /\ pc = [t \in 1..n |-> "queued"]
    /\ ti = [t \in 1..n |-> 1]
    /\ attempt = [t \in 1..n |-> 0]
    /\ last_err = [t \in 1..n |-> NoErr]
    /\ outpath = [t \in 1..n |-> NoPath]
    /\ off = [t \in 1..n |-> 0]
    /\ fh = [t \in 1..n |-> NoPath]
    /\ saved = [t \in 1..n |-> <<>>]
    /\ ret = [t \in 1..n |-> NoRet]
    /\ reqs = [t \in 1..n |-> [i \in 1..Len(types) |-> 0]]
    /\ files = <<>>
    /\ dirs = {}
    /\ debugFiles = {}
    /\ results = <<>>
    /\ manifest = [written |-> FALSE, rows |-> <<>>]
    /\ lastResp = NoLast
    /\ onlyStatus = [t \in 1..n |-> TRUE]

\* the failed type is passed over and the next type of the list is tried
ExhaustGoesOn(t, err) ==
    IF ti[t] = Len(types)
    THEN /\ pc' = [pc EXCEPT ![t] = "done"]
         /\ ret' = [ret EXCEPT ![t] = RetFail(types[ti[t]], err)]
         /\ last_err' = [last_err EXCEPT ![t] = err]
         /\ UNCHANGED <<ti, attempt, saved>>
    ELSE /\ pc' = [pc EXCEPT ![t] = "attempt"]
         /\ ti' = [ti EXCEPT ![t] = @ + 1]
         /\ attempt' = [attempt EXCEPT ![t] = 0]
         /\ last_err' = [last_err EXCEPT ![t] = NoErr]
         /\ UNCHANGED <<ret, saved>>

\* the paths saved so far are returned as a success
ExhaustReturnsSaved(t, err) ==
    /\ pc' = [pc EXCEPT ![t] = "done"]
    /\ ret' = [ret EXCEPT ![t] = RetSaved(saved[t])]
    /\ last_err' = [last_err EXCEPT ![t] = err]
    /\ UNCHANGED <<ti, attempt, saved>>

\* lines 161-163: the type's attempts are used up
Exhaust(t, err) ==
    /\ pc' = [pc EXCEPT ![t] = "done"]
    /\ ret' = [ret EXCEPT ![t] = RetFail(types[ti[t]], err)]
    /\ last_err' = [last_err EXCEPT ![t] = err]
    /\ UNCHANGED <<ti, attempt, saved>>

\* "continue" with attempts left: the next iteration of the attempt loop
Retry(t, err) ==
    /\ pc' = [pc EXCEPT ![t] = "attempt"]
    /\ attempt' = [attempt EXCEPT ![t] = @ + 1]
    /\ last_err' = [last_err EXCEPT ![t] = err]
    /\ UNCHANGED <<ti, ret, saved>>

\* one attempt more than range(retries+1) gives
LastAttemptOneMore(a) == a > Retries

\* range(retries+1) has no value after attempt
LastAttempt(a) == a >= Retries

\* a failed attempt ends the type without another try
FailAttemptGivesUp(t, err) == Exhaust(t, err)

\* a failed attempt: last_err is set, then the loop goes on or ends
FailAttempt(t, err) ==
    IF LastAttempt(attempt[t]) THEN Exhaust(t, err) ELSE Retry(t, err)

\* the environment raises one more exception
Fault == faults > 0 /\ faults' = faults - 1

\* lines 154-156 and the top of the next iteration of "for t in types",
\* or line 164 after the last type
SaveDone(t) ==
    /\ saved' = [saved EXCEPT ![t] = Append(@, outpath[t])]
    /\ IF ti[t] = Len(types)
       THEN /\ pc' = [pc EXCEPT ![t] = "done"]
            /\ ret' = [ret EXCEPT ![t] = RetSaved(Append(saved[t], outpath[t]))]
            /\ UNCHANGED <<ti, attempt, last_err, onlyStatus>>
       ELSE /\ pc' = [pc EXCEPT ![t] = "attempt"]
            /\ ti' = [ti EXCEPT ![t] = @ + 1]
            /\ attempt' = [attempt EXCEPT ![t] = 0]
            /\ last_err' = [last_err EXCEPT ![t] = NoErr]
            /\ onlyStatus' = [onlyStatus EXCEPT ![t] = TRUE]
            /\ UNCHANGED ret

\* session.get(url, ...) is called once more for the current type
Requested(t) == reqs' = [reqs EXCEPT ![t][ti[t]] = @ + 1]

\* the name of a page kept under debug_html
DebugFile(t, tag) == [uid |-> Uid(t), typ |-> TypNum(types[ti[t]]), tag |-> tag]

\* the id is not tested before the loop over the types
PrecheckWithoutIdTest(e) ==
    IF e.detail_url.empty THEN RetCode("no_detail_url") ELSE NoRet

\* lines 51-70 of download_one: the value returned before any request, or
\* NoRet when the loop over the types is entered
Precheck(e) ==
    IF e.detail_url.empty THEN RetCode("no_detail_url")
    ELSE IF ExtractUid(e.detail_url) \in {None, <<>>} THEN RetCode("no_id")
    ELSE NoRet

\* a worker thread of the pool takes the next submitted task and runs
\* lines 51-70 of download_one
Start(t) ==
    /\ pc[t] = "queued"
    /\ \A u \in Tasks : u < t => pc[u] # "queued"
    /\ Cardinality({u \in Tasks : pc[u] \notin {"queued", "done"}}) < workers
    /\ IF Precheck(rows[t]) # NoRet
       THEN /\ pc' = [pc EXCEPT ![t] = "done"]
            /\ ret' = [ret EXCEPT ![t] = Precheck(rows[t])]
       ELSE /\ pc' = [pc EXCEPT ![t] = "attempt"]
            /\ UNCHANGED ret
    /\ lastResp' = NoLast
    /\ UNCHANGED <<rows, types, workers, server, ti, attempt, last_err, outpath, off, fh, saved,
                   reqs, files, dirs, debugFiles, results, manifest, faults, onlyStatus>>
    /\ UNCHANGED <<cvars, fvars>>

\* lines 83, 157-160: session.get raises (connection error, timeout)
AttemptRaise(t) ==
    /\ pc[t] = "attempt"
    /\ Fault
    /\ Requested(t)
    /\ FailAttempt(t, Err("net", 0))
    /\ lastResp' = Last(t, Raised, TRUE)
    /\ onlyStatus' = [onlyStatus EXCEPT ![t] = FALSE]
    /\ UNCHANGED <<rows, types, workers, server, outpath, off, fh, files, dirs, debugFiles,
                   results, manifest>>
    /\ UNCHANGED <<cvars, fvars>>

\* the reason without the status code
StatusErrWithoutCode(code) == Err("status", 0)

\* line 87: last_err = f"status {r.status_code}"
StatusErr(code) == Err("status", code)

\* lines 86-98: a response whose status is not 200
AttemptStatus(t) ==
    /\ pc[t] = "attempt"
    /\ Requested(t)
    /\ \E r \in server :
        /\ ~r.raised
        /\ r.status # 200
        /\ \/ \* os.makedirs(debug_dir) raises
              /\ Fault
              /\ FailAttempt(t, Err("fs", 0))
              /\ lastResp' = Last(t, r, TRUE)
              /\ UNCHANGED <<dirs, debugFiles>>
           \/ \* writing the debug page raises, which is passed over
              /\ Fault
              /\ dirs' = dirs \cup {"debug_html"}
              /\ FailAttempt(t, StatusErr(r.status))
              /\ lastResp' = Last(t, r, FALSE)
              /\ UNCHANGED debugFiles
           \/ /\ dirs' = dirs \cup {"debug_html"}
              /\ debugFiles' = debugFiles \cup {DebugFile(t, StatusErr(r.status))}
              /\ FailAttempt(t, StatusErr(r.status))
              /\ lastResp' = Last(t, r, FALSE)
              /\ UNCHANGED faults
    /\ UNCHANGED <<rows, types, workers, server, outpath, off, fh, files, results, manifest,
                   onlyStatus>>
    /\ UNCHANGED <<cvars, fvars>>

\* lines 117-118, 157-160: r.raw.seek(0) raises on a stream that cannot seek
AttemptSeekRaise(t) ==
    /\ pc[t] = "attempt"
    /\ Requested(t)
    /\ \E r \in server :
        /\ ~r.raised
        /\ r.status = 200
        /\ Classify(r).raised
        /\ FailAttempt(t, Err("seek", 0))
        /\ lastResp' = Last(t, r, FALSE)
    /\ onlyStatus' = [onlyStatus EXCEPT ![t] = FALSE]
    /\ UNCHANGED <<rows, types, workers, server, outpath, off, fh, files, dirs, debugFiles,
                   results, manifest, faults>>
    /\ UNCHANGED <<cvars, fvars>>

\* lines 121-134: a status-200 response for which no extension was found
AttemptNotBinary(t) ==
    /\ pc[t] = "attempt"
    /\ Requested(t)
    /\ \E r \in server :
        /\ ~r.raised
        /\ r.status = 200
        /\ ~Classify(r).raised
        /\ Classify(r).ext = <<>>
        /\ \/ \* os.makedirs(debug_dir) or reading r.content raises
              /\ Fault
              /\ FailAttempt(t, Err("fs", 0))
              /\ lastResp' = Last(t, r, TRUE)
              /\ UNCHANGED <<dirs, debugFiles>>
           \/ \* writing the debug page raises, which is passed over
              /\ Fault
              /\ dirs' = dirs \cup {"debug_html"}
              /\ FailAttempt(t, Err("not_binary_content", 0))
              /\ lastResp' = Last(t, r, FALSE)
              /\ UNCHANGED debugFiles
           \/ /\ dirs' = dirs \cup {"debug_html"}
              /\ debugFiles' = debugFiles \cup {DebugFile(t, Err("notbinary", 0))}
              /\ FailAttempt(t, Err("not_binary_content", 0))
              /\ lastResp' = Last(t, r, FALSE)
              /\ UNCHANGED faults
    /\ onlyStatus' = [onlyStatus EXCEPT ![t] = FALSE]
    /\ UNCHANGED <<rows, types, workers, server, outpath, off, fh, files, results, manifest>>
    /\ UNCHANGED <<cvars, fvars>>

\* lines 136-146: an accepted response; the directory is made and the output
\* path is chosen by looking at the disk
AttemptAccept(t) ==
    /\ pc[t] = "attempt"
    /\ Requested(t)
    /\ \E r \in server :
        /\ ~r.raised
        /\ r.status = 200
        /\ ~Classify(r).raised
        /\ Classify(r).ext # <<>>
        /\ \/ \* os.makedirs(save_dir) raises
              /\ Fault
              /\ FailAttempt(t, Err("fs", 0))
              /\ lastResp' = Last(t, r, TRUE)
              /\ UNCHANGED <<dirs, outpath>>
           \/ /\ dirs' = dirs \cup {SectionOf(rows[t])}
              /\ outpath' = [outpath EXCEPT ![t] =
                                OutPath(DOMAIN files, TitleOf(rows[t]), SectionOf(rows[t]),
                                        Classify(r).ext, Uid(t))]
              /\ pc' = [pc EXCEPT ![t] = "open"]
              /\ lastResp' = Last(t, r, FALSE)
              /\ UNCHANGED <<ti, attempt, last_err, ret, saved, faults>>
    /\ onlyStatus' = [onlyStatus EXCEPT ![t] = FALSE]
    /\ UNCHANGED <<rows, types, workers, server, off, fh, files, debugFiles, results, manifest>>
    /\ UNCHANGED <<cvars, fvars>>

\* line 149: open(outpath + ".part", "wb") creates the file or empties it
OpenPart(t) ==
    /\ pc[t] = "open"
    /\ \/ \* open raises
          /\ Fault
          /\ FailAttempt(t, Err("fs", 0))
          /\ UNCHANGED <<files, fh, off>>
       \/ /\ files' = (Part(outpath[t]) :> <<>>) @@ files
          /\ fh' = [fh EXCEPT ![t] = Part(outpath[t])]
          /\ off' = [off EXCEPT ![t] = 0]
          /\ pc' = [pc EXCEPT ![t] = "write"]
          /\ UNCHANGED <<ti, attempt, last_err, ret, saved, faults>>
    /\ lastResp' = NoLast
    /\ UNCHANGED <<rows, types, workers, server, outpath, reqs, dirs, debugFiles, results, manifest,
                   onlyStatus>>
    /\ UNCHANGED <<cvars, fvars>>

\* lines 150-152: one chunk of r.iter_content is written; the handle is
\* closed after the last chunk and when iter_content raises
WriteChunk(t) ==
    /\ pc[t] = "write"
    /\ \/ \* the connection breaks while the body is read
          /\ Fault
          /\ FailAttempt(t, Err("net", 0))
          /\ fh' = [fh EXCEPT ![t] = NoPath]
          /\ UNCHANGED <<files, off>>
       \/ /\ files' = IF fh[t] \in DOMAIN files
                      THEN [files EXCEPT ![fh[t]] = WriteAt(@, off[t], Chunk(t, ti[t], off[t] + 1))]
                      ELSE files
          /\ off' = [off EXCEPT ![t] = @ + 1]
          /\ IF off[t] + 1 = NChunks
             THEN /\ pc' = [pc EXCEPT ![t] = "replace"]
                  /\ fh' = [fh EXCEPT ![t] = NoPath]
             ELSE UNCHANGED <<pc, fh>>
          /\ UNCHANGED <<ti, attempt, last_err, ret, saved, faults>>
    /\ lastResp' = NoLast
    /\ UNCHANGED <<rows, types, workers, server, outpath, reqs, dirs, debugFiles, results, manifest,
                   onlyStatus>>
    /\ UNCHANGED <<cvars, fvars>>

\* the disk after os.replace(src, dst)
Renamed(fs, src, dst) ==
    [p \in (DOMAIN fs \ {src}) \cup {dst} |-> IF p = dst THEN fs[src] ELSE fs[p]]

\* line 153: os.replace(outpath + ".part", outpath). An open handle follows
\* its file to the new name; the file that was at dst loses its name.
Replace(t) ==
    /\ pc[t] = "replace"
    /\ LET src == Part(outpath[t])
           dst == outpath[t]
       IN  \/ \* FileNotFoundError: another task has renamed the .part file away
              /\ src \notin DOMAIN files
              /\ FailAttempt(t, Err("enoent", 0))
              /\ UNCHANGED <<files, fh, faults, onlyStatus>>
           \/ \* PermissionError where the system refuses to rename a file that
              \* another task holds open
              /\ src \in DOMAIN files
              /\ \E u \in Tasks : fh[u] \in {src, dst}
              /\ FailAttempt(t, Err("eperm", 0))
              /\ UNCHANGED <<files, fh, faults, onlyStatus>>
           \/ \* os.replace raises for another reason
              /\ src \in DOMAIN files
              /\ Fault
              /\ FailAttempt(t, Err("fs", 0))
              /\ UNCHANGED <<files, fh, onlyStatus>>
           \/ /\ src \in DOMAIN files
              /\ files' = Renamed(files, src, dst)
              /\ fh' = [u \in Tasks |-> IF fh[u] = src THEN dst
                                        ELSE IF fh[u] = dst THEN NoPath ELSE fh[u]]
              /\ SaveDone(t)
              /\ UNCHANGED faults
    /\ lastResp' = NoLast
    /\ UNCHANGED <<rows, types, workers, server, outpath, off, reqs, dirs, debugFiles, results,
                   manifest>>
    /\ UNCHANGED <<cvars, fvars>>

\* lines 203-211: the main thread takes a completed future and appends its row
Collect(t) ==
    /\ pc[t] = "done"
    /\ \A i \in 1..Len(results) : results[i].row # t
    /\ results' = Append(results, [row |-> t, ok |-> ret[t].ok, info |-> ret[t]])
    /\ lastResp' = NoLast
    /\ UNCHANGED <<rows, types, workers, server, pc, ti, attempt, last_err, outpath, off, fh, saved,
                   ret, reqs, files, dirs, debugFiles, manifest, faults, onlyStatus>>
    /\ UNCHANGED <<cvars, fvars>>

\* the manifest is written as soon as one result has come in
WriteManifestEarly ==
    /\ ~manifest.written
    /\ Len(results) >= 1
    /\ manifest' = [written |-> TRUE, rows |-> results]
    /\ lastResp' = NoLast
    /\ UNCHANGED <<rows, types, workers, server, pc, ti, attempt, last_err, outpath, off, fh, saved,
                   ret, reqs, files, dirs, debugFiles, results, faults, onlyStatus>>
    /\ UNCHANGED <<cvars, fvars>>

\* lines 214-219: download_results.csv is written after the pool has shut down
WriteManifest ==
    /\ ~manifest.written
    /\ Len(results) = Len(rows)
    /\ manifest' = [written |-> TRUE, rows |-> results]
    /\ lastResp' = NoLast
    /\ UNCHANGED <<rows, types, workers, server, pc, ti, attempt, last_err, outpath, off, fh, saved,
                   ret, reqs, files, dirs, debugFiles, results, faults, onlyStatus>>
    /\ UNCHANGED <<cvars, fvars>>

\* =================================================== collect_all_list_items

CUrls == {"u1", "u2"}
CTitles == {"t1", "t2"}

\* extract_items_from_html: the (title, url) pairs of a page, in page order
RECURSIVE SeqsUpTo(_, _)
SeqsUpTo(S, n) ==
    IF n = 0 THEN {<<>>}
    ELSE LET shorter == SeqsUpTo(S, n - 1)
         IN  shorter \cup {Append(q, x) : q \in shorter, x \in S}

PageContents == SeqsUpTo(CTitles \X CUrls, MaxItems)

\* lines 151-152: page 1 is stored without a membership test
RECURSIVE Seed(_, _)
Seed(acc, items) ==
    IF items = <<>> THEN acc
    ELSE Seed((items[1][2] :> items[1][1]) @@ acc, Tail(items))

\* every pair is stored and counted, without the membership test
MergeWithoutMembershipTest(acc, items) == [acc |-> Seed(acc, items), new |-> Len(items)]

\* lines 200-204: a url is inserted only when it is not a key yet
RECURSIVE Merge(_, _)
Merge(acc, items) ==
    IF items = <<>> THEN [acc |-> acc, new |-> 0]
    ELSE IF items[1][2] \in DOMAIN acc
    THEN Merge(acc, Tail(items))
    ELSE LET m == Merge((items[1][2] :> items[1][1]) @@ acc, Tail(items))
         IN  [acc |-> m.acc, new |-> m.new + 1]

\* lines 156-170: the largest number shown by the pagination widget, -1 (None)
\* when no widget or no number is found or reading it raises
Hints == {-1} \cup 0..MaxLabel

\* the ceiling taken from --max-pages whatever the widget shows
MaxTryIgnoresHint(tp, mp) == mp

\* line 175
MaxTry(tp, mp) == IF tp # -1 /\ tp # 0 /\ tp > 1 THEN tp ELSE mp

\* the counter without its reset
NoGrowthNeverResets(consec, new_count) == IF new_count = 0 THEN consec + 1 ELSE consec

\* lines 214-217
NoGrowth(consec, new_count) == IF new_count = 0 THEN consec + 1 ELSE 0

InitCrawlIdle ==
    /\ c_pc = "start"
    /\ max_pages = 0
    /\ all_items = <<>>
    /\ total_pages = -1
    /\ max_try = 0
    /\ current = 0
    /\ consec_no_new = 0
    /\ hist = <<>>
    /\ stop = ""
    /\ out_csv = [written |-> FALSE, rows |-> <<>>]
    /\ driver_quit = FALSE
    /\ pending = <<>>

\* lines 145-150: the start page is loaded and its pairs are extracted
CStart ==
    /\ c_pc = "start"
    /\ \E items0 \in PageContents : pending' = items0
    /\ all_items' = <<>>
    /\ c_pc' = "seed"
    /\ UNCHANGED <<max_pages, total_pages, max_try, current, consec_no_new, hist, stop,
                   out_csv, driver_quit>>
    /\ UNCHANGED <<dvars, fvars>>

\* lines 151-152: one pass of "for t,u in items0"
CSeed ==
    /\ c_pc = "seed"
    /\ pending # <<>>
    /\ all_items' = Seed(all_items, <<Head(pending)>>)
    /\ pending' = Tail(pending)
    /\ UNCHANGED <<c_pc, max_pages, total_pages, max_try, current, consec_no_new, hist, stop,
                   out_csv, driver_quit>>
    /\ UNCHANGED <<dvars, fvars>>

\* lines 156-178: the hint is read, the ceiling is set, current starts at 2
CHint ==
    /\ c_pc = "seed"
    /\ pending = <<>>
    /\ \E tp \in Hints :
        /\ total_pages' = tp
        /\ max_try' = MaxTry(tp, max_pages)
    /\ current' = 2
    /\ c_pc' = "loop"
    /\ UNCHANGED <<pending, max_pages, all_items, consec_no_new, hist, stop, out_csv, driver_quit>>
    /\ UNCHANGED <<dvars, fvars>>

\* line 179: the loop condition fails
CCeiling ==
    /\ c_pc = "loop"
    /\ ~(current <= max_try)
    /\ c_pc' = "write"
    /\ stop' = "ceiling"
    /\ UNCHANGED <<pending, max_pages, all_items, total_pages, max_try, current, consec_no_new,
                   hist, out_csv, driver_quit>>
    /\ UNCHANGED <<dvars, fvars>>

\* a page number is passed over
NextPageSkips(c) == c + 2

\* line 222: current += 1
NextPage(c) == c + 1

\* lines 180-223: one pass of the loop in which a page is reached, by its
\* numbered control (click) or by the "next" control after that failed
CPage ==
    /\ c_pc = "loop"
    /\ current <= max_try
    /\ \E how \in {"click", "next"}, items \in PageContents :
        LET m == Merge(all_items, items)
            consec == NoGrowth(consec_no_new, m.new)
        IN  /\ all_items' = m.acc
            /\ hist' = Append(hist, [page |-> current, how |-> how, new |-> m.new])
            /\ consec_no_new' = consec
            /\ IF consec >= 3
               THEN /\ c_pc' = "write"
                    /\ stop' = "no_growth"
                    /\ UNCHANGED current
               ELSE /\ current' = NextPage(current)
                    /\ UNCHANGED <<c_pc, stop>>
    /\ UNCHANGED <<pending, max_pages, total_pages, max_try, out_csv, driver_quit>>
    /\ UNCHANGED <<dvars, fvars>>

\* the failed navigation is counted like a page without new records
CAbortCountsNoGrowth ==
    /\ c_pc = "loop"
    /\ current <= max_try
    /\ hist' = Append(hist, [page |-> current, how |-> "none", new |-> 0])
    /\ consec_no_new' = consec_no_new + 1
    /\ c_pc' = "write"
    /\ stop' = "abort"
    /\ UNCHANGED <<pending, max_pages, all_items, total_pages, max_try, current, out_csv, driver_quit>>
    /\ UNCHANGED <<dvars, fvars>>

\* lines 182-195: neither the numbered control nor "next" can be used
CAbort ==
    /\ c_pc = "loop"
    /\ current <= max_try
    /\ hist' = Append(hist, [page |-> current, how |-> "none", new |-> 0])
    /\ c_pc' = "write"
    /\ stop' = "abort"
    /\ UNCHANGED <<pending, max_pages, all_items, total_pages, max_try, current, consec_no_new,
                   out_csv, driver_quit>>
    /\ UNCHANGED <<dvars, fvars>>

\* lines 225-237: the CSV is written, then the driver is quit
CWrite ==
    /\ c_pc = "write"
    /\ out_csv' = [written |-> TRUE, rows |-> all_items]
    /\ driver_quit' = TRUE
    /\ c_pc' = "done"
    /\ UNCHANGED <<pending, max_pages, all_items, total_pages, max_try, current, consec_no_new,
                   hist, stop>>
    /\ UNCHANGED <<dvars, fvars>>

\* lines 144, 233-237: an exception of the driver that no handler of the loop
\* catches (driver.get, page_source, find_elements) leaves main through finally
CFault ==
    /\ c_pc \in {"start", "loop"}
    /\ c_pc' = "crashed"
    /\ driver_quit' = TRUE
    /\ UNCHANGED <<pending, max_pages, all_items, total_pages, max_try, current, consec_no_new,
                   hist, stop, out_csv>>
    /\ UNCHANGED <<dvars, fvars>>

\* ------------------------------------------------- functions on their own
NoMerge == [acc |-> <<>>, new |-> 0]

NoClass == [raised |-> FALSE, ext |-> <<>>]

InitFunIdle ==
    /\ m_pc = "idle"
    /\ m_acc = <<>>
    /\ m_items = <<>>
    /\ m_once = NoMerge
    /\ m_twice = NoMerge
    /\ k_pc = "idle"
    /\ k_r = Raised
    /\ k_out = NoClass

\* the values all_items can have: a title for each url of a set of urls
Accumulators == UNION {[D -> CTitles] : D \in SUBSET CUrls}

\* lines 200-204 on a page's pairs
MergeOnce ==
    /\ m_pc = "in"
    /\ m_once' = Merge(m_acc, m_items)
    /\ m_pc' = "once"
    /\ UNCHANGED <<m_acc, m_items, m_twice, k_pc, k_r, k_out>>
    /\ UNCHANGED <<dvars, cvars>>

\* lines 200-204 once more on the same pairs
MergeTwice ==
    /\ m_pc = "once"
    /\ m_twice' = Merge(m_once.acc, m_items)
    /\ m_pc' = "twice"
    /\ UNCHANGED <<m_acc, m_items, m_once, k_pc, k_r, k_out>>
    /\ UNCHANGED <<dvars, cvars>>

\* lines 100-120 on a response
KClassify ==
    /\ k_pc = "in"
    /\ k_out' = Classify(k_r)
    /\ k_pc' = "out"
    /\ UNCHANGED <<m_pc, m_acc, m_items, m_once, m_twice, k_r>>
    /\ UNCHANGED <<dvars, cvars>>

InitIdle ==
    /\ rows = <<>>
    /\ types = <<"pdf">>
    /\ workers = 1
    /\ server = {}
    /\ faults = 0
    /\ InitTasks(0)
    /\ InitCrawlIdle

InitMerge ==
    /\ InitIdle
    /\ m_pc = "in"
    /\ m_acc \in Accumulators
    /\ m_items \in PageContents
    /\ m_once = NoMerge
    /\ m_twice = NoMerge
    /\ k_pc = "idle"
    /\ k_r = Raised
    /\ k_out = NoClass

NextMerge == MergeOnce \/ MergeTwice

\* the merge of lines 200-204 on every accumulator and page
SpecMerge == InitMerge /\ [][NextMerge]_vars

InitClassify ==
    /\ InitIdle
    /\ m_pc = "idle"
    /\ m_acc = <<>>
    /\ m_items = <<>>
    /\ m_once = NoMerge
    /\ m_twice = NoMerge
    /\ k_pc = "in"
    /\ k_r \in AllOkResponses
    /\ k_out = NoClass

NextClassify == KClassify

\* the choice of the extension, lines 100-120, on every status-200 response
SpecClassify == InitClassify /\ [][NextClassify]_vars

\* ---------------------------------------------------------- specifications
InitCrawl ==
    /\ c_pc = "start"
    /\ max_pages \in 0..MaxPagesArg
    /\ all_items = <<>>
    /\ total_pages = -1
    /\ max_try = 0
    /\ current = 0
    /\ consec_no_new = 0
    /\ hist = <<>>
    /\ stop = ""
    /\ out_csv = [written |-> FALSE, rows |-> <<>>]
    /\ driver_quit = FALSE
    /\ pending = <<>>
    /\ rows = <<>>
    /\ types = <<"pdf">>
    /\ workers = 1
    /\ server = {}
    /\ faults = 0
    /\ InitTasks(0)
    /\ InitFunIdle

NextCrawl == CStart \/ CSeed \/ CHint \/ CCeiling \/ CPage \/ CAbort \/ CWrite \/ CFault

\* one run of collect_all_list_items.py
SpecCrawl == InitCrawl /\ [][NextCrawl]_vars

\* a batch of NRows rows, with the default --types
Init ==
    /\ rows \in BatchRows
    /\ types = <<"pdf">>
    /\ workers \in 1..MaxWorkers
    /\ server = BatchResponses
    /\ faults = MaxBatchFaults
    /\ InitTasks(NRows)
    /\ InitCrawlIdle
    /\ InitFunIdle

\* download_one on one record: a CSV of one row
InitOne ==
    /\ rows \in [1..1 -> Entries]
    /\ types \in TypeLists
    /\ workers = 1
    /\ server = Responses
    /\ faults = MaxFaults
    /\ InitTasks(1)
    /\ InitCrawlIdle
    /\ InitFunIdle

Next ==
    \/ \E t \in Tasks : Start(t)
    \/ \E t \in Tasks : AttemptRaise(t)
    \/ \E t \in Tasks : AttemptStatus(t)
    \/ \E t \in Tasks : AttemptSeekRaise(t)
    \/ \E t \in Tasks : AttemptNotBinary(t)
    \/ \E t \in Tasks : AttemptAccept(t)
    \/ \E t \in Tasks : OpenPart(t)
    \/ \E t \in Tasks : WriteChunk(t)
    \/ \E t \in Tasks : Replace(t)
    \/ \E t \in Tasks : Collect(t)
    \/ WriteManifest

\* one run of download_templates.py
Spec == Init /\ [][Next]_vars

SpecOne == InitOne /\ [][Next]_vars

\* ================================================================== claims
\* a page that was reached and gave no url that was not known
ZeroGrowth(i) == hist[i].how # "none" /\ hist[i].new = 0

\* C7: the loop ends, as a normal completion, right after the first page p for
\* which pages p-2, p-1 and p each gave zero new records, and no page after p
\* is asked for; a page with a new record restarts the count, so the loop
\* never ends for lack of growth, below the ceiling, with fewer than three
\* such pages in a row.
C7_StopsAfterThreeZeroGrowthPages ==
    /\ \A i \in 3..Len(hist) :
          ZeroGrowth(i - 2) /\ ZeroGrowth(i - 1) /\ ZeroGrowth(i)
          => /\ i = Len(hist)
             /\ c_pc \in {"write", "done"}
             /\ stop = "no_growth"
             /\ current = hist[i].page
    /\ stop = "no_growth"
          => /\ Len(hist) >= 3
             /\ \A i \in (Len(hist) - 2)..Len(hist) : ZeroGrowth(i)
    /\ c_pc \in {"write", "done"}
          => \/ stop = "no_growth"
             \/ stop = "abort"
             \/ stop = "ceiling" /\ current > max_try
    /\ c_pc = "loop"
          => consec_no_new < 3
             /\ \A i \in 1..Len(hist) :
                   (i > Len(hist) - consec_no_new) <=> (\A j \in i..Len(hist) : ZeroGrowth(j))

\* C7 witness: pages with growth, then three pages without, below the ceiling
C7_Witness ==
    /\ stop = "no_growth"
    /\ current < max_try
    /\ Len(hist) > 3
    /\ \E i \in 1..Len(hist) : hist[i].new > 0

\* the ceiling as the claim states it: the hint when it is a number above 1,
\* the cap otherwise
C8_Ceiling == IF total_pages # -1 /\ total_pages > 1 THEN total_pages ELSE max_pages

\* C8: no page above the ceiling is ever asked for, where the ceiling is the
\* hint when the hint is a number greater than 1 and --max-pages otherwise.
C8_NeverAboveCeiling ==
    \A i \in 1..Len(hist) : 2 <= hist[i].page /\ hist[i].page <= C8_Ceiling

\* C8 witness: the last page allowed by a hint below the cap still gave a new
\* record, and the loop ended there
C8_Witness ==
    /\ stop = "ceiling"
    /\ total_pages > 1
    /\ total_pages < max_pages
    /\ hist # <<>>
    /\ hist[Len(hist)].page = total_pages
    /\ hist[Len(hist)].new > 0

\* C1, as the specification states it: once a type has used up its attempts,
\* every type after it in the list has been requested at least once when
\* download_one returns.
C1_FollowingTypesRequested ==
    \A t \in Tasks :
        pc[t] = "done" /\ ret[t].code = "fail"
        => \A j \in (ti[t] + 1)..Len(types) : reqs[t][j] >= 1

\* C1: when a type has used up its attempts download_one returns the failure
\* of that type at once; no request is issued for a type that follows it, and
\* a type is requested only after every type before it has been saved.
C1_ReturnsAtFirstExhaustedType ==
    \A t \in Tasks :
        /\ \A j \in 2..Len(types) : reqs[t][j] >= 1 => Len(saved[t]) >= j - 1
        /\ ret[t].code = "fail"
           => /\ pc[t] = "done"
              /\ ret[t].type = types[ti[t]]
              /\ \A j \in (ti[t] + 1)..Len(types) : reqs[t][j] = 0

\* C1 witness: the first of two types has used up its attempts
C1_Witness ==
    \E t \in Tasks :
        /\ ret[t].code = "fail"
        /\ ti[t] < Len(types)
        /\ reqs[t][ti[t]] = Retries + 1

\* a status-200 response without Content-Type and Content-Disposition whose
\* body starts with %PDF
BarePdf(r) == ~r.raised /\ r.status = 200 /\ r.ctype = "" /\ ~r.cd.present /\ r.magic

\* C2: an attempt that receives a status-200 response with no Content-Type,
\* no Content-Disposition and a body starting with %PDF is accepted: it is not
\* turned into a failure by the sniffing step and goes on to save under .pdf.
C2_BarePdfAccepted ==
    \A t \in Tasks :
        lastResp.task = t /\ BarePdf(lastResp.r) /\ ~lastResp.fault
        => /\ pc[t] = "open"
           /\ last_err[t].kind # "seek"
           /\ splitext(outpath[t].name)[2] = ExtPdf

\* the current type of task t has used up its attempts without being saved
Exhausted(t) ==
    /\ reqs[t][ti[t]] = Retries + 1
    /\ pc[t] \in {"attempt", "done"}
    /\ Len(saved[t]) < ti[t]

\* C6: if a requested type uses up its attempts, download_one returns
\* ok = False with the reason fail_<type>:<last_error>, and every file saved
\* for an earlier type of the list is still at its final path.
C6_FailureKeepsSavedFiles ==
    \A t \in Tasks :
        Exhausted(t)
        => /\ pc[t] = "done"
           /\ ~ret[t].ok
           /\ ret[t] = RetFail(types[ti[t]], last_err[t])
           /\ last_err[t] # NoErr
           /\ Len(saved[t]) = ti[t] - 1
           /\ \A k \in 1..Len(saved[t]) :
                 /\ saved[t][k] \in DOMAIN files
                 /\ files[saved[t][k]] = Payload(t, k)

\* C6 witness: pdf was saved and word used up its attempts
C6_Witness ==
    \E t \in Tasks :
        /\ Exhausted(t)
        /\ ti[t] = 2
        /\ Len(saved[t]) = 1
        /\ saved[t][1] \in DOMAIN files

\* C9, as the specification states it: when every response for a type has a
\* status other than 200, exactly retries+1 requests are issued for it and
\* download_one returns fail_<type>:status <code> with the status of the last
\* attempt.
C9_StatusReason ==
    \A t \in Tasks :
        onlyStatus[t] /\ reqs[t][ti[t]] >= 1
        => /\ pc[t] \in {"attempt", "done"}
           /\ pc[t] = "attempt" => reqs[t][ti[t]] <= Retries
           /\ pc[t] = "done" => reqs[t][ti[t]] = Retries + 1
           /\ pc[t] = "done" /\ lastResp.task = t
              => ret[t] = RetFail(types[ti[t]], Err("status", lastResp.r.status))

\* C9: when every response for a type has a status other than 200, exactly
\* retries+1 requests are issued for it and download_one returns
\* fail_<type>:status <code> with the status of the last attempt, unless
\* making the debug_html directory raised in the last attempt: then the
\* reason is fail_<type>:<message of that exception>.
C9_StatusReasonUnlessFault ==
    \A t \in Tasks :
        onlyStatus[t] /\ reqs[t][ti[t]] >= 1
        => /\ pc[t] \in {"attempt", "done"}
           /\ pc[t] = "attempt" => reqs[t][ti[t]] <= Retries
           /\ pc[t] = "done" => reqs[t][ti[t]] = Retries + 1
           /\ pc[t] = "done" /\ lastResp.task = t
              => ret[t] = RetFail(types[ti[t]],
                                  IF lastResp.fault THEN Err("fs", 0)
                                  ELSE Err("status", lastResp.r.status))

\* C9 witness: an attempt answered 500, the last attempt answered 403, and
\* the reason is status 403
C9_Witness ==
    \E t \in Tasks :
        /\ onlyStatus[t]
        /\ pc[t] = "done"
        /\ lastResp.task = t
        /\ ~lastResp.fault
        /\ lastResp.r.status = 403
        /\ ret[t] = RetFail(types[ti[t]], Err("status", 403))
        /\ DebugFile(t, Err("status", 500)) \in debugFiles

\* the record has a detail URL from which no id is found: neither the query
\* parameter id nor the text after "id=" gives one
YieldsNoId(url) ==
    /\ ~url.empty
    /\ QueryId(url) \in {None, <<>>}
    /\ ~HasIdEq(url) \/ SubstrId(url) = <<>>

\* C10: a record with no detail URL gives no_detail_url, a record whose URL
\* yields no id gives no_id; for both no request is issued and nothing is
\* written to disk.
C10_PrecheckFailsBeforeAnyRequest ==
    \A t \in Tasks :
        rows[t].detail_url.empty \/ YieldsNoId(rows[t].detail_url)
        => /\ pc[t] \in {"queued", "done"}
           /\ pc[t] = "done"
              => ret[t] = RetCode(IF rows[t].detail_url.empty
                                  THEN "no_detail_url" ELSE "no_id")
           /\ \A j \in 1..Len(types) : reqs[t][j] = 0
           /\ Len(rows) = 1 => files = <<>> /\ dirs = {} /\ debugFiles = {}

\* C10 witness: a URL that has "id=" with nothing after it was refused
C10_Witness ==
    \E t \in Tasks :
        /\ pc[t] = "done"
        /\ ret[t].code = "no_id"
        /\ HasIdEq(rows[t].detail_url)
        /\ \E i \in 1..Len(results) : results[i].row = t /\ ~results[i].ok

\* a path that is not the temporary sibling of an output path
IsFinalPath(p) ==
    ~(Len(p.name) >= Len(PartSuffix)
      /\ SubSeq(p.name, Len(p.name) - Len(PartSuffix) + 1, Len(p.name)) = PartSuffix)

\* C3: in every state of a batch run, whatever the interleaving of the worker
\* tasks and wherever a write is broken off, a file at a final output path
\* holds one complete payload; partial content is only found at a .part path.
C3_FinalPathsComplete ==
    \A p \in DOMAIN files :
        IsFinalPath(p)
        => \E t \in Tasks, i \in 1..Len(types) : files[p] = Payload(t, i)

\* C4: a save never overwrites a file at a final output path: when two tasks
\* have both returned their saved paths, each path still holds the payload of
\* the task that saved it.
C4_FirstSaveKept ==
    \A t, u \in Tasks :
        t # u /\ pc[t] = "done" /\ pc[u] = "done" /\ ret[t].ok /\ ret[u].ok
        => \A k \in 1..Len(saved[t]) :
              /\ saved[t][k] \in DOMAIN files
              /\ files[saved[t][k]] = Payload(t, k)

\* two records with different ids, the same section and titles that sanitize
\* to the same name
SameNameRecords(e1, e2) ==
    /\ HasUid(e1) /\ HasUid(e2)
    /\ ExtractUid(e1.detail_url) # ExtractUid(e2.detail_url)
    /\ SectionOf(e1) = SectionOf(e2)
    /\ safe_filename(TitleOf(e1)) = safe_filename(TitleOf(e2))

\* C5: two such records downloaded one after the other, both as .pdf, leave
\* two distinct files: the first at {section}/{sanitizedTitle}.pdf and the
\* second at {section}/{sanitizedTitle}_{id of the second}.pdf.
C5_SecondSuffixedBeforeExt ==
    ( /\ workers = 1
      /\ Len(rows) = 2
      /\ SameNameRecords(rows[1], rows[2])
      /\ pc[1] = "done" /\ ret[1].ok
      /\ pc[2] = "done" /\ ret[2].ok )
    => LET sec == SectionOf(rows[1])
           name == safe_filename(TitleOf(rows[1]))
           first == Path(sec, name \o ExtPdf)
           second == Path(sec, name \o <<"_">> \o Uid(2) \o ExtPdf)
       IN  /\ saved[1] = <<first>>
           /\ saved[2] = <<second>>
           /\ first # second
           /\ {first, second} \subseteq DOMAIN files

\* C11: when page N cannot be reached by its numbered control and "next"
\* fails too, the loop ends at once: N is the last page asked for, that pass
\* leaves the no-growth counter and the accumulator as they were, and the
\* accumulator gathered up to page N-1 is what the output file receives.
C11_AbortStopsAndFlushes ==
    /\ [](/\ \A i \in 1..Len(hist) :
                hist[i].how = "none" => i = Len(hist) /\ stop = "abort"
          /\ stop = "abort"
                => /\ hist # <<>>
                   /\ hist[Len(hist)].how = "none"
                   /\ hist[Len(hist)].page = current
                   /\ c_pc \in {"write", "done"}
                   /\ c_pc = "done" => out_csv.written /\ out_csv.rows = all_items)
    /\ [][/\ (stop # "abort" /\ stop' = "abort")
                => /\ all_items' = all_items
                   /\ consec_no_new' = consec_no_new
                   /\ current' = current
                   /\ c_pc' = "write"
          /\ stop = "abort"
                => /\ all_items' = all_items
                   /\ hist' = hist
                   /\ consec_no_new' = consec_no_new
                   /\ c_pc' = "done"]_vars

\* C11 witness: after two pages without growth page N failed; the counter is
\* still 2 and the records of the earlier pages are in the file
C11_Witness ==
    /\ stop = "abort"
    /\ c_pc = "done"
    /\ consec_no_new = 2
    /\ Len(hist) >= 4
    /\ out_csv.written
    /\ DOMAIN out_csv.rows # {}

\* C12: every run of the crawler that has ended, on whatever path (ceiling,
\* no growth, failed navigation, an exception of the driver), has written the
\* records accumulated so far to its output file.
C12_EveryRunWritesOutput ==
    c_pc \in {"done", "crashed"} => out_csv.written /\ out_csv.rows = all_items

\* a step of task t inside download_one
TaskStep(t) ==
    \/ AttemptRaise(t) \/ AttemptStatus(t) \/ AttemptSeekRaise(t) \/ AttemptNotBinary(t)
    \/ AttemptAccept(t) \/ OpenPart(t) \/ WriteChunk(t) \/ Replace(t)

\* C13: whatever the records, the results of the tasks and the order in which
\* they complete, each submitted record gets exactly one entry in results, a
\* task that has failed never keeps another task from running on to its end,
\* and the manifest is written only after every task has completed.
C13_OneEntryPerRecordAndIsolation ==
    /\ \A i, j \in 1..Len(results) : results[i].row = results[j].row => i = j
    /\ \A i \in 1..Len(results) :
          /\ results[i].row \in Tasks
          /\ pc[results[i].row] = "done"
          /\ results[i].info = ret[results[i].row]
          /\ results[i].ok = ret[results[i].row].ok
    /\ manifest.written
          => /\ \A t \in Tasks : pc[t] = "done" /\ \E i \in 1..Len(results) : results[i].row = t
             /\ Len(results) = Len(rows)
             /\ manifest.rows = results
    /\ \A t \in Tasks :
          /\ pc[t] \notin {"queued", "done"} => ENABLED TaskStep(t)
          /\ pc[t] = "done" /\ (\A i \in 1..Len(results) : results[i].row # t) => ENABLED Collect(t)
          /\ ( /\ pc[t] = "queued"
               /\ \A u \in Tasks : u < t => pc[u] # "queued"
               /\ Cardinality({u \in Tasks : pc[u] \notin {"queued", "done"}}) < workers )
             => ENABLED Start(t)
    /\ ~manifest.written /\ (\A t \in Tasks : pc[t] = "done") /\ Len(results) = Len(rows)
          => ENABLED WriteManifest

\* C13 witness: one task saved and one failed, the second record completed
\* first, and the manifest holds both entries
C13_Witness ==
    /\ manifest.written
    /\ Len(manifest.rows) = 2
    /\ manifest.rows[1].row = 2
    /\ ~manifest.rows[1].ok
    /\ manifest.rows[2].ok

\* the urls of a page's pairs
UrlsOf(items) == {items[i][2] : i \in 1..Len(items)}

\* C14: merging a page's pairs into the accumulator a second time adds zero
\* new records and leaves the mapping, keys and stored records, as it was
\* after the first merge; the first merge is the union of the keys by url.
C14_MergeIdempotent ==
    /\ m_pc \in {"once", "twice"}
          => /\ DOMAIN m_once.acc = DOMAIN m_acc \cup UrlsOf(m_items)
             /\ m_once.new = Cardinality(UrlsOf(m_items) \ DOMAIN m_acc)
    /\ m_pc = "twice"
          => /\ m_twice.new = 0
             /\ m_twice.acc = m_once.acc

\* C14 witness: a page that brought new urls, one of them twice with two
\* titles, was merged twice
C14_Witness ==
    /\ m_pc = "twice"
    /\ m_once.new >= 1
    /\ m_twice.acc # m_acc
    /\ \E i, j \in 1..Len(m_items) :
          /\ i < j
          /\ m_items[i][2] = m_items[j][2]
          /\ m_items[i][1] # m_items[j][1]
          /\ m_items[i][2] \notin DOMAIN m_acc

\* C15: the page numbers asked for are 2, 3, 4, ..., k in this order, without
\* a gap and without a number asked for twice, also in the passes in which
\* the numbered control was not found and "next" was used.
C15_PagesInSequence ==
    /\ \A i \in 1..Len(hist) : hist[i].page = i + 1
    /\ c_pc = "loop" => current = Len(hist) + 2
    /\ c_pc \in {"write", "done"} /\ hist # <<>> => current \in {Len(hist) + 1, Len(hist) + 2}

\* C15 witness: page 3 was reached by "next", pages 2 and 4 by their controls
C15_Witness ==
    /\ Len(hist) >= 3
    /\ hist[1].how = "click"
    /\ hist[2].how = "next"
    /\ hist[3].how = "click"
    /\ hist[3].page = 4

\* C16: the accumulator only grows: in every step its keys stay, each url is
\* the key of one record, and a record that has been inserted is never
\* changed, whatever title the same url carries later.
C16_AccumulatorOnlyGrows ==
    [][\A u \in DOMAIN all_items :
          /\ u \in DOMAIN all_items'
          /\ all_items'[u] = all_items[u]]_vars

\* C17: for each record and type at most retries+1 requests are issued; a
\* request is issued only for the type download_one is at, while that type is
\* neither saved nor out of attempts, so that no request follows the saving
\* of the type or the end of its budget.
C17_BudgetAndTerminalTypes ==
    /\ [](\A t \in Tasks : \A j \in 1..Len(types) : reqs[t][j] <= Retries + 1)
    /\ [][\A t \in Tasks : \A j \in 1..Len(types) :
            reqs'[t][j] # reqs[t][j]
            => /\ reqs'[t][j] = reqs[t][j] + 1
               /\ j = ti[t]
               /\ pc[t] = "attempt"
               /\ ret[t] = NoRet
               /\ Len(saved[t]) < j
               /\ reqs[t][j] <= Retries]_vars

\* C17 witness: the first type was saved on its last attempt and the second
\* type used up its attempts
C17_Witness ==
    \E t \in Tasks :
        /\ Len(types) = 2
        /\ reqs[t][1] = Retries + 1
        /\ Len(saved[t]) = 1
        /\ reqs[t][2] = Retries + 1
        /\ pc[t] = "done"
        /\ ret[t].code = "fail"

\* the chain b-f as the specification orders it; <<>> is "not accepted"
ChainExt(r) ==
    IF r.ctype = CtPdf THEN ExtPdf
    ELSE IF r.ctype = CtDocx THEN ExtDocx
    ELSE IF r.ctype = CtMsword THEN ExtDoc
    ELSE IF r.cd.present /\ r.cd.hasFilename
    THEN LET e == splitext(Strip(r.cd.rest))[2]
         IN  IF e = <<>> THEN ExtBin ELSE e
    ELSE IF r.ctype = "" /\ ~r.cd.present /\ r.magic THEN ExtPdf
    ELSE <<>>

\* C18: for every status-200 response the extension download_one chooses is
\* the one the ordered chain gives: .pdf for a PDF content type, .docx or .doc
\* for a Word content type, else the extension of the Content-Disposition
\* filename (or .bin), else .pdf for a body that starts with %PDF when there
\* is no content type and no disposition header, else no acceptance.
C18_ExtensionFollowsChain ==
    k_pc = "out" => ~k_out.raised /\ k_out.ext = ChainExt(k_r)


\* a status-200 response that matches no acceptance case
Unrecognized(r) ==
    /\ ~r.raised
    /\ r.status = 200
    /\ r.ctype \notin {CtPdf, CtDocx, CtMsword}
    /\ ~r.cd.hasFilename
    /\ ~r.magic

\* C19: an attempt that receives such a response, with no fault of the
\* environment, keeps the body as debug_html/{id}_{typeCode}_notbinary.html
\* and fails with last error not_binary_content; it is retried while attempts
\* remain and the outcome on exhaustion is fail_<type>:not_binary_content.
C19_UnrecognizedIsNotBinary ==
    \A t \in Tasks :
        lastResp.task = t /\ Unrecognized(lastResp.r) /\ faults = MaxFaults
        => /\ DebugFile(t, Err("notbinary", 0)) \in debugFiles
           /\ last_err[t] = Err("not_binary_content", 0)
           /\ pc[t] \in {"attempt", "done"}
           /\ pc[t] = "attempt" => reqs[t][ti[t]] <= Retries
           /\ pc[t] = "done"
              => /\ reqs[t][ti[t]] = Retries + 1
                 /\ ret[t] = RetFail(types[ti[t]], Err("not_binary_content", 0))

====
